---- MODULE Spec2Model ----
(***************************************************************************)
(* The frame-pacing and resource-lifecycle engine of src/vulkan/vulk_init.rs *)
(* (VulkanApiObjects): the render thread stepping through init_event_loop,  *)
(* draw, recreate_swapchain, cleanup_swapchain and Drop, and the GPU        *)
(* retiring submitted frames concurrently.                                  *)
(***************************************************************************)
EXTENDS Naturals, Sequences, FiniteSets

\* ------------------------------------------------------------------ bounds
MaxImages == 2          \* largest image count a created swapchain may have
MaxGen == 2             \* swapchain generations after the initial one
MaxWindows == 2         \* windows ever created (the "origin" window included)
MaxTicks == 2           \* steps of the wall clock

\* ------------------------------------------------------- program constants
MAX_FRAMES_IN_FLIGHT == 2
MicrosPerSecond == 1000000

\* Duration::subsec_micros: the fractional part of the duration, in whole
\* microseconds.
SubsecMicros(micros) == micros % MicrosPerSecond

Slots == 0 .. (MAX_FRAMES_IN_FLIGHT - 1)
ImageCounts == 1 .. MaxImages
OriginWindow == 0

VARIABLES
    pc,              \* position of the render thread
    ret,             \* caller of cleanup_swapchain: "recreate" or "drop" ("none" before)
    rc_from,         \* call site of recreate_swapchain in draw: "acquire" / "present"
    windows,         \* self.windows (the key set of the HashMap)
    next_window,     \* next fresh WindowId
    redraw,          \* windows with a pending request_redraw()
    exit_requested,  \* *control_flow == ControlFlow::Exit
    current_frame,   \* self.current_frame
    entry_frame,     \* self.current_frame when the running draw was entered
    fences,          \* in_flight_fences[s] is signaled
    inflight,        \* frames submitted to graphics_queue and not yet retired
    image_index,     \* local image_index of the running draw
    acquire_result,  \* result of the acquire of the running draw
    present_result,  \* result of the present of the running draw
    swapchain,       \* self.swapchain: [gen, images, format, extent, made_from]
    uniform_buffers, \* self.uniform_buffers.len()
    live,            \* GPU objects created and not destroyed: <<kind, index>>
    di,              \* loop index of the loops in Drop
    ops,             \* API calls made by the running handler, in order
    surface,         \* what the window surface reports: [size, formats]
    built,           \* format / extent the swapchain-dependent objects were built with
    presented,       \* frames whose present returned, modulo MAX_FRAMES_IN_FLIGHT
    frame,           \* arguments of the calls of the running draw
    elapsed,         \* time.elapsed() in microseconds
    delta_frame,     \* the closure's delta_frame
    delta_frame_at,  \* time.elapsed() when delta_frame was assigned
    key_event        \* the keyboard input the last callback matched, if any

vars == << pc, ret, rc_from, windows, next_window, redraw, exit_requested,
           current_frame, entry_frame, fences, inflight, image_index,
           acquire_result, present_result, swapchain, uniform_buffers, live,
           di, ops, surface, built, presented, frame, elapsed, delta_frame,
           delta_frame_at, key_event >>

\* ---------------------------------------------------- surface, swapchain
\* Drawable sizes of the window surface: the size init_window asks for, a
\* smaller one, and a minimized window.
WindowSize == [w |-> 800, h |-> 600]
SmallSize == [w |-> 400, h |-> 300]
ZeroSize == [w |-> 0, h |-> 0]
ZeroArea(size) == size.w * size.h = 0

\* Surface format lists the driver may report, in the order it reports them.
PreferredFormat == "B8G8R8A8_SRGB"
InitialSurface == [size |-> WindowSize, formats |-> << "B8G8R8A8_SRGB", "R8G8B8A8_UNORM" >>]
\* The states the surface is taken through: resized, minimized, and moved to
\* an output that reports another format list.
Surfaces == { InitialSurface,
              [InitialSurface EXCEPT !.size = SmallSize],
              [InitialSurface EXCEPT !.size = ZeroSize],
              [InitialSurface EXCEPT !.formats = << "R8G8B8A8_UNORM", "B8G8R8A8_UNORM" >>] }

\* create_swapchain picks the preferred format when the surface supports it
\* and the first supported format otherwise.
ChooseFormat(formats) ==
    IF \E k \in 1 .. Len(formats) : formats[k] = PreferredFormat
    THEN PreferredFormat
    ELSE formats[1]

\* The extent range a window surface of this drawable size reports.
ExtentRange(size) == [min |-> size, max |-> size]
Clamp(v, lo, hi) == IF v < lo THEN lo ELSE IF v > hi THEN hi ELSE v

\* create_swapchain clamps the drawable size to the surface's extent range.
ChooseExtent(size) ==
    [w |-> Clamp(size.w, ExtentRange(size).min.w, ExtentRange(size).max.w),
     h |-> Clamp(size.h, ExtentRange(size).min.h, ExtentRange(size).max.h)]

\* A swapchain whose format depends on how many images it got.
CreateSwapchainFormatByImageCount(gen, n, surf) ==
    [gen |-> gen, images |-> n,
     format |-> surf.formats[Clamp(n, 1, Len(surf.formats))],
     extent |-> ChooseExtent(surf.size), made_from |-> surf]

\* What create_swapchain returns for a surface in state surf that yields n
\* images: the swapchain handle of generation gen, n images, the chosen format
\* and extent (made_from records the surface state it was created from).
CreateSwapchain(gen, n, surf) ==
    [gen |-> gen, images |-> n, format |-> ChooseFormat(surf.formats),
     extent |-> ChooseExtent(surf.size), made_from |-> surf]

\* The format and extent init and recreate_swapchain pass to
\* create_render_pass, create_graphics_pipeline, create_framebuffers and
\* create_command_buffers.
BuiltFrom(sc) ==
    [render_pass_format |-> sc.format, pipeline_extent |-> sc.extent,
     framebuffer_extent |-> sc.extent, command_buffer_extent |-> sc.extent]

\* Sync objects of slot cf.
ImageAvailable(cf) == <<"image_available_semaphore", cf>>
RenderFinished(cf) == <<"render_finished_semaphore", cf>>
InFlightFence(cf) == <<"fence", cf>>
NoObject == <<"none", 0>>

\* No draw is running: nothing has been called yet.
NoFrame ==
    [entry_swapchain |-> CreateSwapchain(0, 0, [size |-> ZeroSize, formats |-> << "UNDEFINED" >>]),
     entry_objects |-> {},
     acquire_swapchain |-> NoObject,
     acquire_signal |-> NoObject, reset_fence |-> NoObject,
     submit_wait |-> NoObject, submit_signal |-> NoObject,
     submit_fence |-> NoObject, submit_buffer |-> NoObject,
     present_wait |-> NoObject, present_image |-> 0, present_swapchain |-> NoObject,
     delta_micros |-> 0]

\* --------------------------------------------------------------- objects
PerImage(kind, n) == { <<kind, i>> : i \in 0 .. (n - 1) }
PerSlot(kind) == { <<kind, s>> : s \in Slots }
One(kind) == { <<kind, 0>> }

\* Objects that cleanup_swapchain destroys (one swapchain generation).
SwapchainObjects(sc) ==
    { <<"swapchain", sc.gen>> }
    \cup PerImage("image_view", sc.images)
    \cup One("render_pass") \cup One("pipeline") \cup One("pipeline_layout")
    \cup PerImage("framebuffer", sc.images)
    \cup PerImage("command_buffer", sc.images)

LiveKind(kind) == \E o \in live : o[1] = kind

\* The swapchain-dependent objects and handles.
SwapchainKinds == { "swapchain", "image_view", "render_pass", "pipeline",
                    "pipeline_layout", "framebuffer", "command_buffer" }
SwapchainLive == { o \in live : o[1] \in SwapchainKinds }

\* The callback did not match WindowEvent::KeyboardInput.
NoKey == [state |-> "none", key |-> "none", is_synthetic |-> FALSE]

\* Everything VulkanApiObjects::init creates, for a first swapchain of n images.
InitObjects(n) ==
    One("instance") \cup One("debug_messenger") \cup One("surface")
    \cup One("device")
    \cup SwapchainObjects([gen |-> 0, images |-> n])
    \cup One("ubo_layout") \cup One("command_pool")
    \cup One("vertex_buffer") \cup One("vertex_buffer_memory")
    \cup One("index_buffer") \cup One("index_buffer_memory")
    \cup PerImage("uniform_buffer", n) \cup PerImage("uniform_buffer_memory", n)
    \cup One("descriptor_pool") \cup PerImage("descriptor_set", n)
    \cup PerSlot("image_available_semaphore")
    \cup PerSlot("render_finished_semaphore")
    \cup PerSlot("fence")

Init ==
    \E n \in ImageCounts :
        /\ pc = "idle"
        /\ ret = "none"
        /\ rc_from = "none"
        /\ windows = { OriginWindow }
        /\ next_window = 1
        /\ redraw = {}
        /\ exit_requested = FALSE
        /\ current_frame = 0
        /\ entry_frame = 0
        /\ fences = [s \in Slots |-> TRUE]
        /\ inflight = << >>
        /\ image_index = 0
        /\ acquire_result = "none"
        /\ present_result = "none"
        /\ swapchain = CreateSwapchain(0, n, InitialSurface)
        /\ uniform_buffers = n
        /\ live = InitObjects(n)
        /\ di = 0
        /\ ops = << >>
        /\ surface = InitialSurface
        /\ built = BuiltFrom(CreateSwapchain(0, n, InitialSurface))
        /\ presented = 0
        /\ frame = NoFrame
        /\ elapsed = 0
        /\ delta_frame = 0
        /\ delta_frame_at = 0
        /\ key_event = NoKey

\* ------------------------------------------------------------ GPU timeline
Frame(slot, image, gen) == [slot |-> slot, image |-> image, gen |-> gen]

RemoveAt(q, k) == [i \in 1 .. (Len(q) - 1) |-> IF i < k THEN q[i] ELSE q[i + 1]]

InFlightWith(field, v) == { k \in 1 .. Len(inflight) : inflight[k][field] = v }

DeviceIdle == inflight = << >>

\* The GPU finishes one submitted frame; completion signals the fence the frame
\* was submitted with (queue_submit's fence argument).
GpuRetire ==
    /\ \E k \in 1 .. Len(inflight) :
        /\ fences' = [fences EXCEPT ![inflight[k].slot] = TRUE]
        /\ inflight' = RemoveAt(inflight, k)
    /\ UNCHANGED << pc, ret, rc_from, windows, next_window, redraw,
                    exit_requested, current_frame, entry_frame, image_index,
                    acquire_result, present_result, swapchain,
                    uniform_buffers, live, di, ops >>
    /\ UNCHANGED << surface, built, presented, frame >>
    /\ UNCHANGED << elapsed, delta_frame, delta_frame_at, key_event >>

\* ---------------------------------------------------- results of API calls
\* acquire_next_image: Ok((index, suboptimal)) or Err(code).
AcquireResults == { "OK", "ERROR_OUT_OF_DATE_KHR", "ERROR_OTHER" }
\* queue_present: Ok(false), Ok(true) on VK_SUBOPTIMAL_KHR, or Err(code).
PresentResults == { "OK_FALSE", "OK_TRUE_SUBOPTIMAL", "ERROR_OUT_OF_DATE_KHR",
                    "ERR_SUBOPTIMAL_KHR", "ERROR_OTHER" }
CallResults == { "OK", "ERROR" }

\* A match whose error arm recreates on every error code.
AcquireOutcomeRecreatesOnAnyError(result) ==
    IF result = "OK" THEN "image" ELSE "recreate"

\* The match on the acquire result in draw.
AcquireOutcome(result) ==
    CASE result = "OK" -> "image"
      [] result = "ERROR_OUT_OF_DATE_KHR" -> "recreate"
      [] OTHER -> "panic"

\* A match that recreates the swapchain after every present that returned.
PresentOutcomeAlwaysResized(result) ==
    IF result = "ERROR_OTHER" THEN "panic" ELSE "resized"

\* The match on the present result in draw (is_resized, or the panic arm).
PresentOutcome(result) ==
    CASE result \in { "OK_FALSE", "OK_TRUE_SUBOPTIMAL" } -> "not_resized"
      [] result \in { "ERROR_OUT_OF_DATE_KHR", "ERR_SUBOPTIMAL_KHR" } -> "resized"
      [] OTHER -> "panic"

\* A mis-indexed fence: the other slot's.
WaitFenceOtherSlot(cf) == (cf + 1) % MAX_FRAMES_IN_FLIGHT

\* wait_fences = [self.in_flight_fences[self.current_frame]]
WaitFence(cf) == cf

\* A wait that polls (timeout 0) instead of blocking.
FenceWaitPolls(s) == TRUE

\* wait_for_fences(.., true, u64::MAX) returns once the fence is signaled.
FenceWaitReturns(s) == fences[s]

\* The semaphore acquire_next_image signals.
AcquireSignals(cf) == ImageAvailable(cf)
\* wait_semaphores, signal_semaphores and the fence of the queue_submit.
SubmitWaits(cf) == ImageAvailable(cf)
SubmitSignals(cf) == RenderFinished(cf)
SubmitFence(cf) == InFlightFence(cf)

\* A present that waits for the acquire instead of the rendering.
PresentWaitsImageAvailable(cf) == ImageAvailable(cf)

\* p_wait_semaphores of the PresentInfoKHR: signal_semaphores.as_ptr()
PresentWaits(cf) == SubmitSignals(cf)

\* (self.current_frame + 1) % MAX_FRAMES_IN_FLIGHT
NextFrame(cf) == (cf + 1) % MAX_FRAMES_IN_FLIGHT

Log(op) == ops' = Append(ops, op)
Panic(op) == /\ pc' = "unwinding"
             /\ ops' = ops \o << op, "panic" >>

\* -------------------------------------------------------------- event loop
Running == pc = "idle" /\ ~exit_requested

\* A close handler that ends the loop whichever window was closed.
CloseAnyWindowExits ==
    /\ Running
    /\ \E w \in windows :
        /\ windows' = windows \ { w }
        /\ redraw' = redraw \ { w }
        /\ exit_requested' = TRUE
    /\ UNCHANGED << pc, ret, rc_from, next_window, current_frame, entry_frame,
                    fences, inflight, image_index, acquire_result,
                    present_result, swapchain, uniform_buffers, live, di, ops,
                    surface, built, presented, frame >>
    /\ UNCHANGED << elapsed, delta_frame, delta_frame_at >>
    /\ key_event' = NoKey

\* WindowEvent::CloseRequested for window w.
CloseRequested ==
    /\ Running
    /\ \E w \in windows :
        /\ windows' = windows \ { w }
        /\ redraw' = redraw \ { w }
        /\ exit_requested' = (windows' = {})
    /\ UNCHANGED << pc, ret, rc_from, next_window, current_frame, entry_frame,
                    fences, inflight, image_index, acquire_result,
                    present_result, swapchain, uniform_buffers, live, di, ops >>
    /\ UNCHANGED << surface, built, presented, frame >>
    /\ UNCHANGED << elapsed, delta_frame, delta_frame_at >>
    /\ key_event' = NoKey

KeyStates == { "Pressed", "Released" }
KeyCodes == { "N", "Other" }

\* A key condition that leaves out the element state.
SpawnsWindowOnPressToo(state, key, is_synthetic) ==
    key = "N" /\ ~is_synthetic

\* The condition under which a KeyboardInput event spawns a window.
SpawnsWindow(state, key, is_synthetic) ==
    state = "Released" /\ key = "N" /\ ~is_synthetic

\* WindowEvent::KeyboardInput.
KeyboardInput ==
    /\ Running
    /\ windows # {}
    /\ \E state \in KeyStates, key \in KeyCodes, is_synthetic \in BOOLEAN :
        /\ SpawnsWindow(state, key, is_synthetic) => next_window < MaxWindows
        /\ IF SpawnsWindow(state, key, is_synthetic)
           THEN /\ windows' = windows \cup { next_window }
                /\ next_window' = next_window + 1
           ELSE UNCHANGED << windows, next_window >>
        /\ key_event' = [state |-> state, key |-> key,
                         is_synthetic |-> is_synthetic]
    /\ UNCHANGED << pc, ret, rc_from, redraw, exit_requested, current_frame,
                    entry_frame, fences, inflight, image_index, acquire_result,
                    present_result, swapchain, uniform_buffers, live, di, ops >>
    /\ UNCHANGED << surface, built, presented, frame >>
    /\ UNCHANGED << elapsed, delta_frame, delta_frame_at >>

\* Any other WindowEvent (Resized among them) matches neither `if let` of the
\* handler: the program's state stays as it is while the surface's drawable
\* size, or the format list the surface reports, has changed.
SurfaceChanged ==
    /\ Running
    /\ \E s \in Surfaces : s # surface /\ surface' = s
    /\ UNCHANGED << pc, ret, rc_from, windows, next_window, redraw,
                    exit_requested, current_frame, entry_frame, fences,
                    inflight, image_index, acquire_result, present_result,
                    swapchain, uniform_buffers, live, di, ops, built,
                    presented, frame >>
    /\ UNCHANGED << elapsed, delta_frame, delta_frame_at >>
    /\ key_event' = NoKey

\* The wall clock between two handler runs, in steps of TickMicros (time that
\* passes inside a handler counts with the time before it).
TickMicros == 600000
Tick ==
    /\ Running
    /\ elapsed < MaxTicks * TickMicros
    /\ elapsed' = elapsed + TickMicros
    /\ UNCHANGED << pc, ret, rc_from, windows, next_window, redraw,
                    exit_requested, current_frame, entry_frame, fences,
                    inflight, image_index, acquire_result, present_result,
                    swapchain, uniform_buffers, live, di, ops, surface, built,
                    presented, frame, delta_frame, delta_frame_at, key_event >>

\* Event::MainEventsCleared: request_redraw on every window of the set.
MainEventsCleared ==
    /\ Running
    /\ redraw # windows
    /\ redraw' = windows
    /\ UNCHANGED << pc, ret, rc_from, windows, next_window, exit_requested,
                    current_frame, entry_frame, fences, inflight, image_index,
                    acquire_result, present_result, swapchain, uniform_buffers,
                    live, di, ops >>
    /\ UNCHANGED << surface, built, presented, frame >>
    /\ UNCHANGED << elapsed, delta_frame, delta_frame_at >>
    /\ key_event' = NoKey

\* Event::RedrawRequested(_window_id): the handler calls self.draw.
RedrawRequested ==
    /\ Running
    /\ \E w \in redraw : redraw' = redraw \ { w }
    /\ pc' = "draw_wait"
    /\ entry_frame' = current_frame
    /\ acquire_result' = "none"
    /\ present_result' = "none"
    /\ ops' = << >>
    /\ frame' = [NoFrame EXCEPT !.entry_swapchain = swapchain,
                                !.entry_objects = SwapchainLive,
                                !.delta_micros = delta_frame]
    /\ UNCHANGED << ret, rc_from, windows, next_window, exit_requested,
                    current_frame, fences, inflight, image_index, swapchain,
                    uniform_buffers, live, di >>
    /\ UNCHANGED << surface, built, presented >>
    /\ UNCHANGED << elapsed, delta_frame, delta_frame_at >>
    /\ key_event' = NoKey

\* Event::LoopDestroyed: device_wait_idle().expect(..).
LoopDestroyed ==
    /\ pc = "idle"
    /\ exit_requested
    /\ \E r \in CallResults :
        IF r = "OK"
        THEN /\ DeviceIdle
             /\ pc' = "exiting"
             /\ ops' = << "device_wait_idle" >>
        ELSE /\ pc' = "unwinding"
             /\ ops' = << "device_wait_idle", "panic" >>
    /\ UNCHANGED << ret, rc_from, windows, next_window, redraw, exit_requested,
                    current_frame, entry_frame, fences, inflight, image_index,
                    acquire_result, present_result, swapchain, uniform_buffers,
                    live, di >>
    /\ UNCHANGED << surface, built, presented, frame >>
    /\ UNCHANGED << elapsed, delta_frame, delta_frame_at >>
    /\ key_event' = NoKey

\* -------------------------------------------------------------------- draw
\* A draw that resets the fence as soon as the wait has returned, before the
\* acquire.
DrawWaitThenReset ==
    /\ pc = "draw_wait"
    /\ \E r \in CallResults :
        IF r = "OK"
        THEN /\ FenceWaitReturns(WaitFence(current_frame))
             /\ fences' = [fences EXCEPT ![WaitFence(current_frame)] = FALSE]
             /\ pc' = "draw_acquire"
             /\ ops' = Append(ops, "wait_for_fences")
        ELSE /\ Panic("wait_for_fences")
             /\ UNCHANGED fences
    /\ UNCHANGED << ret, rc_from, windows, next_window, redraw, exit_requested,
                    current_frame, entry_frame, inflight, image_index,
                    acquire_result, present_result, swapchain, uniform_buffers,
                    live, di, surface, built, presented, frame, elapsed,
                    delta_frame, delta_frame_at, key_event >>

\* wait_for_fences(&wait_fences, true, u64::MAX).expect(..)
DrawWaitForFences ==
    /\ pc = "draw_wait"
    /\ \E r \in CallResults :
        IF r = "OK"
        THEN /\ FenceWaitReturns(WaitFence(current_frame))
             /\ pc' = "draw_acquire"
             /\ Log("wait_for_fences")
        ELSE Panic("wait_for_fences")
    /\ UNCHANGED << ret, rc_from, windows, next_window, redraw, exit_requested,
                    current_frame, entry_frame, fences, inflight, image_index,
                    acquire_result, present_result, swapchain, uniform_buffers,
                    live, di >>
    /\ UNCHANGED << surface, built, presented, frame >>
    /\ UNCHANGED << elapsed, delta_frame, delta_frame_at, key_event >>

\* acquire_next_image(swapchain, u64::MAX, image_available[current_frame], null)
\* and the match on its result.
DrawAcquire ==
    /\ pc = "draw_acquire"
    /\ \E result \in AcquireResults, i \in 0 .. (swapchain.images - 1),
          is_sub_optimal \in BOOLEAN :
        /\ AcquireOutcome(result) = "recreate" => swapchain.gen < MaxGen
        /\ acquire_result' = result
        /\ frame' = [frame EXCEPT
                       !.acquire_swapchain = <<"swapchain", swapchain.gen>>,
                       !.acquire_signal = AcquireSignals(current_frame)]
        /\ CASE AcquireOutcome(result) = "image" ->
                  /\ image_index' = i
                  /\ pc' = "draw_update"
                  /\ Log("acquire_next_image")
                  /\ UNCHANGED rc_from
             [] AcquireOutcome(result) = "recreate" ->
                  /\ rc_from' = "acquire"
                  /\ pc' = "rc_wait_idle"
                  /\ Log("acquire_next_image")
                  /\ UNCHANGED image_index
             [] OTHER ->
                  /\ Panic("acquire_next_image")
                  /\ UNCHANGED << image_index, rc_from >>
    /\ UNCHANGED << ret, windows, next_window, redraw, exit_requested,
                    current_frame, entry_frame, fences, inflight,
                    present_result, swapchain, uniform_buffers, live, di >>
    /\ UNCHANGED << surface, built, presented >>
    /\ UNCHANGED << elapsed, delta_frame, delta_frame_at, key_event >>

\* update_uniform_buffer(.., image_index, delta_time, &uniform_buffers_memory)
DrawUpdateUniformBuffer ==
    /\ pc = "draw_update"
    /\ pc' = "draw_reset"
    /\ Log("update_uniform_buffer")
    /\ UNCHANGED << ret, rc_from, windows, next_window, redraw, exit_requested,
                    current_frame, entry_frame, fences, inflight, image_index,
                    acquire_result, present_result, swapchain, uniform_buffers,
                    live, di >>
    /\ UNCHANGED << surface, built, presented, frame >>
    /\ UNCHANGED << elapsed, delta_frame, delta_frame_at, key_event >>

\* reset_fences(&wait_fences).expect(..)
DrawResetFences ==
    /\ pc = "draw_reset"
    /\ \E r \in CallResults :
        IF r = "OK"
        THEN /\ fences' = [fences EXCEPT ![WaitFence(current_frame)] = FALSE]
             /\ frame' = [frame EXCEPT
                            !.reset_fence = InFlightFence(WaitFence(current_frame))]
             /\ pc' = "draw_submit"
             /\ Log("reset_fences")
        ELSE /\ Panic("reset_fences")
             /\ UNCHANGED << fences, frame >>
    /\ UNCHANGED << ret, rc_from, windows, next_window, redraw, exit_requested,
                    current_frame, entry_frame, inflight, image_index,
                    acquire_result, present_result, swapchain, uniform_buffers,
                    live, di >>
    /\ UNCHANGED << surface, built, presented >>
    /\ UNCHANGED << elapsed, delta_frame, delta_frame_at, key_event >>

\* queue_submit(graphics_queue, &submit_infos, in_flight_fences[current_frame])
DrawQueueSubmit ==
    /\ pc = "draw_submit"
    /\ \E r \in CallResults :
        IF r = "OK"
        THEN /\ inflight' = Append(inflight,
                     Frame(current_frame, image_index, swapchain.gen))
             /\ frame' = [frame EXCEPT
                            !.submit_wait = SubmitWaits(current_frame),
                            !.submit_signal = SubmitSignals(current_frame),
                            !.submit_fence = SubmitFence(current_frame),
                            !.submit_buffer = <<"command_buffer", image_index>>]
             /\ pc' = "draw_present"
             /\ Log("queue_submit")
        ELSE /\ Panic("queue_submit")
             /\ UNCHANGED << inflight, frame >>
    /\ UNCHANGED << ret, rc_from, windows, next_window, redraw, exit_requested,
                    current_frame, entry_frame, fences, image_index,
                    acquire_result, present_result, swapchain, uniform_buffers,
                    live, di >>
    /\ UNCHANGED << surface, built, presented >>
    /\ UNCHANGED << elapsed, delta_frame, delta_frame_at, key_event >>

\* queue_present(graphics_queue, &present_info), the match that computes
\* is_resized, and `if is_resized { self.recreate_swapchain(); }`.
DrawQueuePresent ==
    /\ pc = "draw_present"
    /\ \E result \in PresentResults :
        /\ PresentOutcome(result) = "resized" => swapchain.gen < MaxGen
        /\ present_result' = result
        /\ frame' = [frame EXCEPT
                       !.present_wait = PresentWaits(current_frame),
                       !.present_image = image_index,
                       !.present_swapchain = <<"swapchain", swapchain.gen>>]
        /\ CASE PresentOutcome(result) = "not_resized" ->
                  /\ pc' = "draw_advance"
                  /\ presented' = (presented + 1) % MAX_FRAMES_IN_FLIGHT
                  /\ Log("queue_present")
                  /\ UNCHANGED rc_from
             [] PresentOutcome(result) = "resized" ->
                  /\ rc_from' = "present"
                  /\ pc' = "rc_wait_idle"
                  /\ presented' = (presented + 1) % MAX_FRAMES_IN_FLIGHT
                  /\ Log("queue_present")
             [] OTHER ->
                  /\ Panic("queue_present")
                  /\ UNCHANGED << rc_from, presented >>
    /\ UNCHANGED << ret, windows, next_window, redraw, exit_requested,
                    current_frame, entry_frame, fences, inflight, image_index,
                    acquire_result, swapchain, uniform_buffers, live, di >>
    /\ UNCHANGED << surface, built >>
    /\ UNCHANGED << elapsed, delta_frame, delta_frame_at, key_event >>

\* self.current_frame = (self.current_frame + 1) % MAX_FRAMES_IN_FLIGHT
DrawAdvance ==
    /\ pc = "draw_advance"
    /\ current_frame' = NextFrame(current_frame)
    /\ pc' = "draw_return"
    /\ UNCHANGED << ret, rc_from, windows, next_window, redraw, exit_requested,
                    entry_frame, fences, inflight, image_index, acquire_result,
                    present_result, swapchain, uniform_buffers, live, di, ops >>
    /\ UNCHANGED << surface, built, presented, frame >>
    /\ UNCHANGED << elapsed, delta_frame, delta_frame_at, key_event >>

\* draw returns to the RedrawRequested handler (`return;` in the acquire arm,
\* or the end of the function): its locals go out of scope.
DrawReturn ==
    /\ pc = "draw_return"
    /\ pc' = "idle"
    /\ rc_from' = "none"
    /\ entry_frame' = 0
    /\ image_index' = 0
    /\ acquire_result' = "none"
    /\ present_result' = "none"
    /\ ops' = << >>
    /\ frame' = NoFrame
    /\ delta_frame' = SubsecMicros(elapsed)
    /\ delta_frame_at' = elapsed
    /\ UNCHANGED key_event
    /\ UNCHANGED << ret, windows, next_window, redraw, exit_requested,
                    current_frame, fences, inflight, swapchain,
                    uniform_buffers, live, di, elapsed >>
    /\ UNCHANGED << surface, built, presented >>

\* ------------------------------------------------------ recreate_swapchain
\* The handles create_swapchain returns: the swapchain and one image view per
\* image.
SwapchainHandles(sc) ==
    { <<"swapchain", sc.gen>> } \cup PerImage("image_view", sc.images)
\* create_framebuffers: one framebuffer per image view.
CreateFramebuffers(sc) == PerImage("framebuffer", sc.images)
\* create_command_buffers: one command buffer per framebuffer.
CreateCommandBuffers(sc) == PerImage("command_buffer", sc.images)

\* A recreation that does not wait for the device.
WaitIdleSkipped == TRUE

\* The precondition device_wait_idle returns under: nothing is executing.
WaitIdleReturns == DeviceIdle

\* A recreation that waits and then builds the new generation without
\* calling cleanup_swapchain.
RecreateWithoutCleanup ==
    /\ pc = "rc_wait_idle"
    /\ DeviceIdle
    /\ pc' = "rc_create_swapchain"
    /\ ops' = Append(ops, "device_wait_idle")
    /\ UNCHANGED << ret, rc_from, windows, next_window, redraw, exit_requested,
                    current_frame, entry_frame, fences, inflight, image_index,
                    acquire_result, present_result, swapchain, uniform_buffers,
                    live, di >>
    /\ UNCHANGED << surface, built, presented, frame >>
    /\ UNCHANGED << elapsed, delta_frame, delta_frame_at, key_event >>

\* device_wait_idle().expect(..); self.cleanup_swapchain()
RecreateWaitIdle ==
    /\ pc = "rc_wait_idle"
    /\ \E r \in CallResults :
        IF r = "OK"
        THEN /\ WaitIdleReturns
             /\ pc' = "cl_command_buffers"
             /\ ret' = "recreate"
             /\ Log("device_wait_idle")
        ELSE /\ Panic("device_wait_idle")
             /\ UNCHANGED ret
    /\ UNCHANGED << rc_from, windows, next_window, redraw, exit_requested,
                    current_frame, entry_frame, fences, inflight, image_index,
                    acquire_result, present_result, swapchain, uniform_buffers,
                    live, di >>
    /\ UNCHANGED << surface, built, presented, frame >>
    /\ UNCHANGED << elapsed, delta_frame, delta_frame_at, key_event >>

\* One straight-line step that destroys (or creates) objects and logs the call.
DestroyStep(from, to, objs, op) ==
    /\ pc = from
    /\ pc' = to
    /\ live' = live \ objs
    /\ Log(op)

CreateStep(from, to, objs, op) ==
    /\ pc = from
    /\ pc' = to
    /\ live' = live \cup objs
    /\ Log(op)

Untouched == << ret, rc_from, windows, next_window, redraw, exit_requested,
                current_frame, entry_frame, fences, inflight, image_index,
                acquire_result, present_result, swapchain, uniform_buffers, di,
                surface, presented, frame, elapsed, delta_frame,
                delta_frame_at, key_event >>

\* self.swapchain = create_swapchain(..)
RecreateCreateSwapchain ==
    /\ pc = "rc_create_swapchain"
    /\ \E n \in ImageCounts, r \in CallResults :
        /\ r = "ERROR" => ZeroArea(surface.size)
        /\ IF r = "OK"
           THEN /\ swapchain' = CreateSwapchain(swapchain.gen + 1, n, surface)
                /\ live' = live \cup SwapchainHandles(swapchain')
                /\ pc' = "rc_create_render_pass"
                /\ Log("create_swapchain")
           ELSE /\ Panic("create_swapchain")
                /\ UNCHANGED << swapchain, live >>
    /\ UNCHANGED << ret, rc_from, windows, next_window, redraw, exit_requested,
                    current_frame, entry_frame, fences, inflight, image_index,
                    acquire_result, present_result, uniform_buffers, di >>
    /\ UNCHANGED << surface, built, presented, frame >>
    /\ UNCHANGED << elapsed, delta_frame, delta_frame_at, key_event >>

\* self.render_pass = create_render_pass(..)
RecreateCreateRenderPass ==
    /\ CreateStep("rc_create_render_pass", "rc_create_pipeline",
                  One("render_pass"), "create_render_pass")
    /\ built' = [built EXCEPT !.render_pass_format = swapchain.format]
    /\ UNCHANGED Untouched

\* A pipeline rebuilt with the extent the previous one had.
RecreatePipelineStaleExtent ==
    /\ CreateStep("rc_create_pipeline", "rc_create_framebuffers",
                  One("pipeline") \cup One("pipeline_layout"),
                  "create_graphics_pipeline")
    /\ UNCHANGED built
    /\ UNCHANGED Untouched

\* create_graphics_pipeline(..) -> (graphics_pipeline, pipeline_layout)
RecreateCreatePipeline ==
    /\ CreateStep("rc_create_pipeline", "rc_create_framebuffers",
                  One("pipeline") \cup One("pipeline_layout"),
                  "create_graphics_pipeline")
    /\ built' = [built EXCEPT !.pipeline_extent = swapchain.extent]
    /\ UNCHANGED Untouched

\* self.swapchain_framebuffers = create_framebuffers(..)
RecreateCreateFramebuffers ==
    /\ CreateStep("rc_create_framebuffers", "rc_create_command_buffers",
                  CreateFramebuffers(swapchain), "create_framebuffers")
    /\ built' = [built EXCEPT !.framebuffer_extent = swapchain.extent]
    /\ UNCHANGED Untouched

\* An acquire arm without its `return`: draw carries on after the recreation.
RecreateReturnFallsThrough(from) == "draw_advance"

\* A present arm that returns from draw right after the recreation.
RecreateReturnSkipsAdvance(from) == "draw_return"

\* Where recreate_swapchain returns to in draw: `return` after the acquire
\* arm, the current_frame assignment after the present arm.
RecreateReturn(from) ==
    IF from = "acquire" THEN "draw_return" ELSE "draw_advance"

\* A recreation that returns to draw without allocating command buffers.
RecreateKeepsCommandBuffers ==
    /\ pc = "rc_create_command_buffers"
    /\ pc' = RecreateReturn(rc_from)
    /\ UNCHANGED << live, ops >>
    /\ UNCHANGED Untouched
    /\ UNCHANGED built

\* self.command_buffers = create_command_buffers(..); return to draw
RecreateCreateCommandBuffers ==
    /\ CreateStep("rc_create_command_buffers", RecreateReturn(rc_from),
                  CreateCommandBuffers(swapchain), "create_command_buffers")
    /\ built' = [built EXCEPT !.command_buffer_extent = swapchain.extent]
    /\ UNCHANGED Untouched

\* ------------------------------------------------------- cleanup_swapchain
CleanupFreeCommandBuffers ==
    /\ DestroyStep("cl_command_buffers", "cl_framebuffers",
                   PerImage("command_buffer", swapchain.images),
                   "free_command_buffers")
    /\ UNCHANGED Untouched
    /\ UNCHANGED built

\* A cleanup that destroys the render pass where the framebuffers should go.
CleanupRenderPassFirst ==
    /\ pc = "cl_framebuffers"
    /\ pc' = "cl_pipeline"
    /\ live' = live \ { <<"render_pass", 0>> }
    /\ ops' = Append(ops, "destroy_render_pass")
    /\ UNCHANGED << ret, rc_from, windows, next_window, redraw, exit_requested,
                    current_frame, entry_frame, fences, inflight, image_index,
                    acquire_result, present_result, swapchain, uniform_buffers,
                    di >>
    /\ UNCHANGED << surface, built, presented, frame >>
    /\ UNCHANGED << elapsed, delta_frame, delta_frame_at, key_event >>

CleanupFramebuffers ==
    /\ DestroyStep("cl_framebuffers", "cl_pipeline",
                   PerImage("framebuffer", swapchain.images),
                   "destroy_framebuffer")
    /\ UNCHANGED Untouched
    /\ UNCHANGED built

CleanupPipeline ==
    /\ DestroyStep("cl_pipeline", "cl_pipeline_layout", One("pipeline"),
                   "destroy_pipeline")
    /\ UNCHANGED Untouched
    /\ UNCHANGED built

CleanupPipelineLayout ==
    /\ DestroyStep("cl_pipeline_layout", "cl_render_pass",
                   One("pipeline_layout"), "destroy_pipeline_layout")
    /\ UNCHANGED Untouched
    /\ UNCHANGED built

CleanupRenderPass ==
    /\ DestroyStep("cl_render_pass", "cl_image_views", One("render_pass"),
                   "destroy_render_pass")
    /\ UNCHANGED Untouched
    /\ UNCHANGED built

CleanupImageViews ==
    /\ DestroyStep("cl_image_views", "cl_swapchain",
                   PerImage("image_view", swapchain.images),
                   "destroy_image_view")
    /\ UNCHANGED Untouched
    /\ UNCHANGED built

\* Where cleanup_swapchain returns to: recreate_swapchain or drop.
CleanupReturn(caller) ==
    IF caller = "recreate" THEN "rc_create_swapchain" ELSE "drop_ubo_layout"

CleanupSwapchain ==
    /\ DestroyStep("cl_swapchain", CleanupReturn(ret),
                   { <<"swapchain", swapchain.gen>> }, "destroy_swapchain")
    /\ ret' = "none"
    /\ UNCHANGED << rc_from, windows, next_window, redraw, exit_requested,
                    current_frame, entry_frame, fences, inflight, image_index,
                    acquire_result, present_result, swapchain, uniform_buffers,
                    di >>
    /\ UNCHANGED << surface, built, presented, frame >>
    /\ UNCHANGED << elapsed, delta_frame, delta_frame_at, key_event >>

\* -------------------------------------------------------------------- Drop
\* The closure that owns `self` is dropped when the event loop ends, after
\* the LoopDestroyed handler or while a panic unwinds out of a handler (the
\* handler's frame, its locals and its call log are gone by then, and so are
\* the event loop's pending redraw requests and its window-id allocator; the
\* log restarts with how the loop ended).
DropBegin ==
    /\ pc \in { "exiting", "unwinding" }
    /\ pc' = "drop_sync"
    /\ di' = 0
    /\ ops' = IF pc = "unwinding" THEN << "panic" >> ELSE ops
    /\ rc_from' = "none"
    /\ entry_frame' = 0
    /\ image_index' = 0
    /\ acquire_result' = "none"
    /\ present_result' = "none"
    /\ redraw' = {}
    /\ next_window' = 0
    /\ frame' = NoFrame
    /\ elapsed' = 0
    /\ delta_frame' = 0
    /\ delta_frame_at' = 0
    /\ key_event' = NoKey
    /\ UNCHANGED << ret, windows, exit_requested, current_frame, fences,
                    inflight, swapchain, uniform_buffers, live >>
    /\ UNCHANGED << surface, built, presented >>

SyncObjects(i) == { <<"image_available_semaphore", i>>,
                    <<"render_finished_semaphore", i>>, <<"fence", i>> }

\* for i in 0..MAX_FRAMES_IN_FLIGHT { destroy_semaphore x2; destroy_fence },
\* then self.cleanup_swapchain()
DropSyncObjects ==
    /\ pc = "drop_sync"
    /\ live' = live \ SyncObjects(di)
    /\ ops' = ops \o << "destroy_semaphore", "destroy_semaphore",
                        "destroy_fence" >>
    /\ IF di + 1 < MAX_FRAMES_IN_FLIGHT
       THEN /\ di' = di + 1
            /\ UNCHANGED << pc, ret >>
       ELSE /\ di' = 0
            /\ pc' = "cl_command_buffers"
            /\ ret' = "drop"
    /\ UNCHANGED << rc_from, windows, next_window, redraw, exit_requested,
                    current_frame, entry_frame, fences, inflight, image_index,
                    acquire_result, present_result, swapchain, uniform_buffers >>
    /\ UNCHANGED << surface, built, presented, frame >>
    /\ UNCHANGED << elapsed, delta_frame, delta_frame_at, key_event >>

DropDescriptorSetLayout ==
    /\ DestroyStep("drop_ubo_layout", "drop_uniform_buffer", One("ubo_layout"),
                   "destroy_descriptor_set_layout")
    /\ UNCHANGED Untouched
    /\ UNCHANGED built

\* uniform_buffers.iter().enumerate().for_each: destroy_buffer(uniform_buffers[i])
DropUniformBuffer ==
    /\ DestroyStep("drop_uniform_buffer", "drop_uniform_memory",
                   { <<"uniform_buffer", di>> }, "destroy_buffer")
    /\ UNCHANGED Untouched
    /\ UNCHANGED built

\* ... free_memory(uniform_buffers_memory[i])
DropUniformMemory ==
    /\ DestroyStep("drop_uniform_memory",
                   IF di + 1 < uniform_buffers THEN "drop_uniform_buffer"
                                               ELSE "drop_index_buffer",
                   { <<"uniform_buffer_memory", di>> }, "free_memory")
    /\ di' = di + 1
    /\ UNCHANGED << ret, rc_from, windows, next_window, redraw, exit_requested,
                    current_frame, entry_frame, fences, inflight, image_index,
                    acquire_result, present_result, swapchain, uniform_buffers >>
    /\ UNCHANGED << surface, built, presented, frame >>
    /\ UNCHANGED << elapsed, delta_frame, delta_frame_at, key_event >>

DropIndexBuffer ==
    /\ DestroyStep("drop_index_buffer", "drop_index_memory",
                   One("index_buffer"), "destroy_buffer")
    /\ UNCHANGED Untouched
    /\ UNCHANGED built

DropIndexMemory ==
    /\ DestroyStep("drop_index_memory", "drop_vertex_buffer",
                   One("index_buffer_memory"), "free_memory")
    /\ UNCHANGED Untouched
    /\ UNCHANGED built

DropVertexBuffer ==
    /\ DestroyStep("drop_vertex_buffer", "drop_vertex_memory",
                   One("vertex_buffer"), "destroy_buffer")
    /\ UNCHANGED Untouched
    /\ UNCHANGED built

DropVertexMemory ==
    /\ DestroyStep("drop_vertex_memory", "drop_command_pool",
                   One("vertex_buffer_memory"), "free_memory")
    /\ UNCHANGED Untouched
    /\ UNCHANGED built

DropCommandPool ==
    /\ DestroyStep("drop_command_pool", "drop_device", One("command_pool"),
                   "destroy_command_pool")
    /\ UNCHANGED Untouched
    /\ UNCHANGED built

DropDevice ==
    /\ DestroyStep("drop_device", "drop_surface", One("device"),
                   "destroy_device")
    /\ UNCHANGED Untouched
    /\ UNCHANGED built

\* VALIDATION.is_enable
ValidationEnabled == TRUE

DropSurface ==
    /\ DestroyStep("drop_surface",
                   IF ValidationEnabled THEN "drop_debug_messenger"
                                        ELSE "drop_instance",
                   One("surface"), "destroy_surface")
    /\ UNCHANGED Untouched
    /\ UNCHANGED built

DropDebugMessenger ==
    /\ DestroyStep("drop_debug_messenger", "drop_instance",
                   One("debug_messenger"), "destroy_debug_utils_messenger")
    /\ UNCHANGED Untouched
    /\ UNCHANGED built

DropInstance ==
    /\ DestroyStep("drop_instance", "terminated", One("instance"),
                   "destroy_instance")
    /\ UNCHANGED Untouched
    /\ UNCHANGED built

\* ----------------------------------------------------------- specification
\* Every step of the program and of the GPU except the spawning of a window.
NextNoSpawn ==
    \/ GpuRetire
    \/ CloseRequested
    \/ MainEventsCleared
    \/ RedrawRequested
    \/ LoopDestroyed
    \/ DrawWaitForFences
    \/ DrawAcquire
    \/ DrawUpdateUniformBuffer
    \/ DrawResetFences
    \/ DrawQueueSubmit
    \/ DrawQueuePresent
    \/ DrawAdvance
    \/ DrawReturn
    \/ RecreateWaitIdle
    \/ RecreateCreateSwapchain
    \/ RecreateCreateRenderPass
    \/ RecreateCreatePipeline
    \/ RecreateCreateFramebuffers
    \/ RecreateCreateCommandBuffers
    \/ CleanupFreeCommandBuffers
    \/ CleanupFramebuffers
    \/ CleanupPipeline
    \/ CleanupPipelineLayout
    \/ CleanupRenderPass
    \/ CleanupImageViews
    \/ CleanupSwapchain
    \/ DropBegin
    \/ DropSyncObjects
    \/ DropDescriptorSetLayout
    \/ DropUniformBuffer
    \/ DropUniformMemory
    \/ DropIndexBuffer
    \/ DropIndexMemory
    \/ DropVertexBuffer
    \/ DropVertexMemory
    \/ DropCommandPool
    \/ DropDevice
    \/ DropSurface
    \/ DropDebugMessenger
    \/ DropInstance

Next == NextNoSpawn \/ KeyboardInput

Spec == Init /\ [][Next]_vars

\* The program with its one "origin" window, whose surface changes while the
\* program runs.
NextSurface == NextNoSpawn \/ SurfaceChanged

SpecSurface == Init /\ [][NextSurface]_vars

\* The program with its one window while the wall clock runs.
NextTimer == NextNoSpawn \/ Tick

SpecTimer == Init /\ [][NextTimer]_vars

\* The program with its one window on a GPU that eventually completes every
\* frame submitted to it.
SpecLive == Init /\ [][NextNoSpawn]_vars /\ WF_vars(GpuRetire)

TypeOK ==
    /\ current_frame \in Slots
    /\ Len(inflight) <= MAX_FRAMES_IN_FLIGHT

\* ------------------------------------------------------------- properties
DrawPcs == { "draw_wait", "draw_acquire", "draw_update", "draw_reset",
             "draw_submit", "draw_present", "draw_advance", "draw_return" }
CleanupPcs == { "cl_command_buffers", "cl_framebuffers", "cl_pipeline",
                "cl_pipeline_layout", "cl_render_pass", "cl_image_views",
                "cl_swapchain" }
CreatePcs == { "rc_create_swapchain", "rc_create_render_pass",
               "rc_create_pipeline", "rc_create_framebuffers",
               "rc_create_command_buffers" }
DropPcs == { "drop_sync", "drop_ubo_layout", "drop_uniform_buffer",
             "drop_uniform_memory", "drop_index_buffer", "drop_index_memory",
             "drop_vertex_buffer", "drop_vertex_memory", "drop_command_pool",
             "drop_device", "drop_surface", "drop_debug_messenger",
             "drop_instance" }

\* recreate_swapchain is past its device_wait_idle.
InRecreate == (pc \in CleanupPcs /\ ret = "recreate") \/ pc \in CreatePcs
\* Drop is running or has run.
InTeardown == (pc \in CleanupPcs /\ ret = "drop") \/ pc \in DropPcs
              \/ pc = "terminated"
\* Drop has destroyed at least one object.
DropHasDestroyed == InTeardown /\ ~(pc = "drop_sync" /\ di = 0)

IsPrefix(a, b) == Len(a) <= Len(b) /\ \A k \in 1 .. Len(a) : a[k] = b[k]
Positions(op) == { k \in 1 .. Len(ops) : ops[k] = op }
Count(op) == Cardinality(Positions(op))

\* C1: for every sync slot at most one submitted-but-not-retired frame uses
\* the slot, and from the moment the fence wait of draw has returned until the
\* submit, no unfinished frame submitted with the current slot's fence exists
\* (so the reset and the resubmit never hit a fence that is still pending).
C1_SlotExclusive ==
    /\ \A s \in Slots : Cardinality(InFlightWith("slot", s)) <= 1
    /\ pc \in { "draw_acquire", "draw_update", "draw_reset", "draw_submit" }
         => InFlightWith("slot", current_frame) = {}

\* Slot 0 has been reused: its second frame is in flight behind slot 1's.
C1_Witness ==
    /\ Len(inflight) = 2
    /\ inflight[1].slot = 1
    /\ inflight[2].slot = 0

\* C2: no two in-flight frames were submitted with the same swapchain image
\* index (uniform buffer i, command buffer i and framebuffer i have one user).
C2_ImageExclusive ==
    \A i \in 0 .. (MaxImages - 1) : Cardinality(InFlightWith("image", i)) <= 1

\* C3: at most MAX_FRAMES_IN_FLIGHT frames are submitted and not yet retired.
C3_InFlightBounded == Len(inflight) <= MAX_FRAMES_IN_FLIGHT

\* The CPU is MAX_FRAMES_IN_FLIGHT frames ahead and blocked in the fence wait.
C3_Witness ==
    /\ Len(inflight) = MAX_FRAMES_IN_FLIGHT
    /\ pc = "draw_wait"
    /\ ~fences[current_frame]

\* The calls of one recreate_swapchain, in the order of the code.
RecreateOrder ==
    << "device_wait_idle", "free_command_buffers", "destroy_framebuffer",
       "destroy_pipeline", "destroy_pipeline_layout", "destroy_render_pass",
       "destroy_image_view", "destroy_swapchain", "create_swapchain",
       "create_render_pass", "create_graphics_pipeline", "create_framebuffers",
       "create_command_buffers" >>

FrameOps == { "update_uniform_buffer", "reset_fences", "queue_submit",
              "queue_present" }
DestroyOps == { "free_command_buffers", "destroy_framebuffer",
                "destroy_pipeline", "destroy_pipeline_layout",
                "destroy_render_pass", "destroy_image_view",
                "destroy_swapchain", "destroy_semaphore", "destroy_fence",
                "destroy_descriptor_set_layout", "destroy_buffer",
                "free_memory", "destroy_command_pool", "destroy_device",
                "destroy_surface", "destroy_debug_utils_messenger",
                "destroy_instance" }
CreateOps == { "create_swapchain", "create_render_pass",
               "create_graphics_pipeline", "create_framebuffers",
               "create_command_buffers" }

\* C4: once the acquire of a draw has reported "out of date", the draw only
\* runs recreate_swapchain and returns: the slot's fence stays signaled, no
\* uniform buffer is written, nothing is reset, submitted or presented, and
\* current_frame keeps the value it had when draw was entered; at the return
\* the draw has made exactly the calls wait, acquire, recreate.
C4_AcquireOutOfDateSkipsFrame ==
    acquire_result = "ERROR_OUT_OF_DATE_KHR" =>
        /\ fences[current_frame]
        /\ current_frame = entry_frame
        /\ \A k \in 1 .. Len(ops) : ops[k] \notin FrameOps
        /\ pc \in { "rc_wait_idle", "unwinding", "draw_return" }
                  \cup CleanupPcs \cup CreatePcs
        /\ pc = "draw_return" =>
              ops = << "wait_for_fences", "acquire_next_image" >>
                    \o RecreateOrder

\* A draw returns after its acquire reported "out of date".
C4_Witness ==
    /\ pc = "draw_return"
    /\ acquire_result = "ERROR_OUT_OF_DATE_KHR"
    /\ Count("create_command_buffers") = 1

\* The present of the running draw reported "out of date" or "suboptimal",
\* in any of the forms the API reports it.
PresentWantsRecreate ==
    present_result \in { "ERROR_OUT_OF_DATE_KHR", "ERR_SUBOPTIMAL_KHR",
                         "OK_TRUE_SUBOPTIMAL" }

\* C5: when the present of a draw reported "out of date" or "suboptimal",
\* then by the time the draw advances current_frame, recreate_swapchain has
\* run exactly once, and all of it after the present call.
C5_PresentRecreatesOnce ==
    (PresentWantsRecreate /\ pc \in { "draw_advance", "draw_return" }) =>
        /\ Count("device_wait_idle") = 1
        /\ Count("create_command_buffers") = 1
        /\ \A k \in Positions("device_wait_idle") :
              \A j \in Positions("queue_present") : j < k

\* C6: an acquire failure other than "out of date" and a present failure other
\* than "out of date"/"suboptimal" panic out of the loop at once, and after a
\* panic the thread only runs the teardown: no fence reset, submit, present or
\* recreation call follows.
C6_FatalErrorsEndLoop ==
    /\ (acquire_result = "ERROR_OTHER" \/ present_result = "ERROR_OTHER") =>
          /\ pc = "unwinding"
          /\ ops[Len(ops)] = "panic"
    /\ (ops # << >> /\ ops[1] = "panic") =>
          /\ InTeardown
          /\ \A k \in 2 .. Len(ops) : ops[k] \in DestroyOps

\* The teardown ran to its end after a fatal error.
C6_Witness ==
    /\ pc = "terminated"
    /\ ops # << >>
    /\ ops[1] = "panic"

\* The calls of the recreate_swapchain the running draw made, if any.
RecreateLog ==
    IF Positions("device_wait_idle") = {} THEN << >>
    ELSE LET first == CHOOSE k \in Positions("device_wait_idle") :
                          \A j \in Positions("device_wait_idle") : k <= j
         IN SubSeq(ops, first, Len(ops))

\* C7: every recreate_swapchain makes its calls in the order device-idle wait,
\* destroy framebuffers, destroy pipeline / layout / render pass, destroy image
\* views, destroy swapchain, create swapchain, render pass and pipeline,
\* framebuffers, command buffers (the command buffers are freed right after
\* the wait); a recreation that returned has made all of them.
C7_RecreateOrder ==
    (pc \in DrawPcs \cup CleanupPcs \cup CreatePcs /\ ret # "drop") =>
        /\ IsPrefix(RecreateLog, RecreateOrder)
        /\ (rc_from # "none" /\ pc \in { "draw_advance", "draw_return" })
              => RecreateLog = RecreateOrder
        /\ \A k \in 1 .. Len(ops) :
              /\ ops[k] \in CreateOps =>
                    \A j \in (k + 1) .. Len(ops) : ops[j] \notin DestroyOps
              /\ ops[k] \in DestroyOps =>
                    /\ \E j \in 1 .. (k - 1) : ops[j] = "device_wait_idle"
                    /\ \A j \in (k + 1) .. Len(ops) :
                          ops[j] # "device_wait_idle"

\* A recreation triggered by present has completed.
C7_Witness ==
    /\ pc = "draw_advance"
    /\ rc_from = "present"
    /\ Count("create_command_buffers") = 1

\* C8: a step that destroys, creates or replaces a swapchain-dependent object
\* is a step of recreate_swapchain taken with no frame in flight, or a step of
\* the teardown after the loop has ended.
C8_MutatedOnlyWhenIdle ==
    [][ (SwapchainLive' # SwapchainLive \/ swapchain' # swapchain) =>
           \/ InRecreate /\ DeviceIdle /\ DeviceIdle'
           \/ InTeardown ]_vars

\* A recreation that follows a submitted frame is half way through.
C8_Witness ==
    /\ pc = "rc_create_render_pass"
    /\ rc_from = "present"
    /\ Count("queue_submit") = 1

\* C9: once Drop has destroyed an object, the thread came there through a
\* completed device-idle wait and no submitted frame is in flight.
C9_DropAfterIdle ==
    DropHasDestroyed => /\ ops[1] = "device_wait_idle"
                        /\ DeviceIdle

\* C10: destruction follows the references: no framebuffer or pipeline without
\* its render pass, no image view without its swapchain, no command buffer
\* without the command pool, no buffer without its memory, no swapchain without
\* the surface, and never two swapchains at once.
C10_DestroyOrder ==
    /\ (LiveKind("framebuffer") \/ LiveKind("pipeline")) => LiveKind("render_pass")
    /\ LiveKind("image_view") => <<"swapchain", swapchain.gen>> \in live
    /\ LiveKind("command_buffer") => LiveKind("command_pool")
    /\ \A i \in 0 .. (MaxImages - 1) :
          <<"uniform_buffer", i>> \in live => <<"uniform_buffer_memory", i>> \in live
    /\ LiveKind("index_buffer") => LiveKind("index_buffer_memory")
    /\ LiveKind("vertex_buffer") => LiveKind("vertex_buffer_memory")
    /\ LiveKind("swapchain") => LiveKind("surface")
    /\ Cardinality({ o \in live : o[1] = "swapchain" }) <= 1

\* Drop has run to its end on a swapchain that was recreated.
C10_Witness ==
    /\ pc = "terminated"
    /\ swapchain.gen > 0
    /\ ~LiveKind("surface")

\* Objects created from the instance rather than from the device.
InstanceObjects ==
    One("instance") \cup One("debug_messenger") \cup One("surface")

\* C11: teardown leaks nothing and destroys parents last: once Drop has
\* destroyed the device, no object created from the device is left (sync
\* objects, swapchain-dependent objects, command pool, buffers and memory,
\* descriptor set layout, descriptor pool and its sets), and once it has
\* destroyed the instance, nothing at all is left.
C11_TeardownLeakFree ==
    /\ (InTeardown /\ ~LiveKind("device")) => live \subseteq InstanceObjects
    /\ pc = "terminated" => live = {}

\* A frame may be drawn: init or a recreate_swapchain has completed and the
\* loop has neither panicked nor ended.
FrameCanBeDrawn == pc \in { "idle", "rc_wait_idle" } \cup DrawPcs

CountKind(kind) == Cardinality({ o \in live : o[1] = kind })

\* C12: after init and after every completed recreate_swapchain there are as
\* many image views, framebuffers and command buffers as the swapchain has
\* images, one of each for every image index an acquire can return, whatever
\* image count the surface yields.
C12_PerImageCounts ==
    FrameCanBeDrawn =>
        /\ CountKind("image_view") = swapchain.images
        /\ CountKind("framebuffer") = swapchain.images
        /\ CountKind("command_buffer") = swapchain.images
        /\ \A i \in 0 .. (swapchain.images - 1) :
              { <<"image_view", i>>, <<"framebuffer", i>>,
                <<"command_buffer", i>> } \subseteq live

\* A frame is drawn on a swapchain whose recreation raised the image count.
C12_Witness ==
    /\ pc = "draw_submit"
    /\ swapchain.gen > 0
    /\ swapchain.images = MaxImages
    /\ uniform_buffers < MaxImages

\* C13: wherever a frame can be drawn, there are as many uniform buffers and
\* descriptor sets as the current swapchain has images.
C13_UniformBuffersMatchImages ==
    FrameCanBeDrawn =>
        /\ uniform_buffers = swapchain.images
        /\ CountKind("uniform_buffer") = swapchain.images
        /\ CountKind("uniform_buffer_memory") = swapchain.images
        /\ CountKind("descriptor_set") = swapchain.images

\* C14: no swapchain is ever created from a surface whose drawable size has
\* zero area, and no render pass, pipeline, framebuffer or command buffer is
\* built with a zero extent.
C14_NoZeroExtentSwapchain ==
    /\ ~ZeroArea(swapchain.made_from.size)
    /\ ~ZeroArea(swapchain.extent)
    /\ ~ZeroArea(built.pipeline_extent)
    /\ ~ZeroArea(built.framebuffer_extent)
    /\ ~ZeroArea(built.command_buffer_extent)
    /\ \A k \in Positions("create_swapchain") : ~ZeroArea(surface.size)

\* The render thread is in a handler or between handlers, not terminating.
LoopRunning ==
    pc \in { "idle", "rc_wait_idle" } \cup DrawPcs \cup CleanupPcs \cup CreatePcs
    /\ ret # "drop"

\* The present of the running draw has returned and draw has not reached its
\* current_frame assignment yet.
AdvancePending ==
    \/ pc = "draw_advance"
    \/ rc_from = "present" /\ pc \in { "rc_wait_idle" } \cup CleanupPcs \cup CreatePcs

\* C15: current_frame is 0 at the start and always a slot index; it equals the
\* number of frames whose present has returned (with or without a recreation),
\* modulo MAX_FRAMES_IN_FLIGHT, so it advances by one slot per such frame,
\* comes back after MAX_FRAMES_IN_FLIGHT of them, and nothing else moves it.
C15_FrameCursor ==
    /\ current_frame \in Slots
    /\ LoopRunning =>
          IF AdvancePending THEN NextFrame(current_frame) = presented
                            ELSE current_frame = presented

\* The second presented frame triggered a recreation and moved the cursor
\* from 1 back to 0.
C15_Witness ==
    /\ pc = "draw_return"
    /\ rc_from = "present"
    /\ entry_frame = 1
    /\ current_frame = 0

C17_CloseRemovesOneWindow ==
    /\ [](exit_requested <=> windows = {})
    /\ [][ ~(windows \subseteq windows') =>
             /\ \E w \in windows : windows' = windows \ { w }
             /\ exit_requested' = (windows' = {}) ]_vars

\* Of two windows the origin window was closed; the loop keeps drawing.
C17_Witness ==
    /\ windows = { 1 }
    /\ ~exit_requested
    /\ pc = "draw_present"

\* C18: when a draw has rebuilt the swapchain, the new swapchain has the
\* surface's current drawable size as its extent, the render pass, pipeline,
\* framebuffers and command buffers are built for the new format and extent,
\* and every later frame is submitted with a live command buffer and
\* presented against the current swapchain, the only one with frames in flight.
C18_ResizeRebuilds ==
    /\ (pc \in { "draw_advance", "draw_return" } /\ rc_from # "none") =>
          /\ swapchain.made_from = surface
          /\ swapchain.extent = surface.size
          /\ swapchain.gen = frame.entry_swapchain.gen + 1
    /\ FrameCanBeDrawn =>
          /\ built = BuiltFrom(swapchain)
          /\ \A k \in 1 .. Len(inflight) : inflight[k].gen = swapchain.gen
    /\ (pc \in DrawPcs /\ rc_from = "none") =>
          /\ frame.submit_buffer # NoObject => frame.submit_buffer \in live
          /\ frame.present_swapchain # NoObject =>
                frame.present_swapchain = <<"swapchain", swapchain.gen>>

\* After the window shrank and the swapchain was rebuilt, a later frame has
\* been presented on the 400x300 swapchain.
C18_Witness ==
    /\ pc = "draw_advance"
    /\ rc_from = "none"
    /\ present_result = "OK_FALSE"
    /\ surface.size = SmallSize
    /\ swapchain.extent = SmallSize
    /\ built.framebuffer_extent = SmallSize
    /\ frame.entry_swapchain = swapchain

\* The calls of one draw, in the order of the code.
DrawOrder ==
    << "wait_for_fences", "acquire_next_image", "update_uniform_buffer",
       "reset_fences", "queue_submit", "queue_present" >>
InDrawOrder(op) == \E k \in 1 .. Len(DrawOrder) : DrawOrder[k] = op
DrawLog == SelectSeq(ops, InDrawOrder)

\* C19: the calls of a draw come in the order wait, acquire, uniform update,
\* fence reset, submit, present; a fence is reset only after a successful
\* acquire and the reset is followed, unless the thread panics, by the submit
\* that signals that fence; the submit waits on the semaphore the acquire
\* signals and runs the acquired image's command buffer; the present waits on
\* the semaphore the submit signals and presents the acquired image.
C19_DrawStepOrder ==
    /\ IsPrefix(DrawLog, DrawOrder)
    /\ frame.reset_fence # NoObject =>
          /\ acquire_result = "OK"
          /\ frame.reset_fence = InFlightFence(entry_frame)
          /\ pc \notin { "draw_submit", "unwinding" } =>
                frame.submit_fence = frame.reset_fence
    /\ frame.submit_fence # NoObject =>
          /\ frame.reset_fence = frame.submit_fence
          /\ frame.submit_wait = frame.acquire_signal
          /\ frame.submit_wait = ImageAvailable(entry_frame)
          /\ frame.submit_signal = RenderFinished(entry_frame)
          /\ frame.submit_buffer = <<"command_buffer", image_index>>
    /\ frame.present_wait # NoObject =>
          /\ frame.submit_fence # NoObject
          /\ frame.present_wait = frame.submit_signal
          /\ frame.present_image = image_index

\* A frame of slot 1 went through all six calls.
C19_Witness ==
    /\ pc = "draw_advance"
    /\ ops = DrawOrder
    /\ frame.present_wait = RenderFinished(1)

\* C20: as long as a draw has not entered recreate_swapchain, the swapchain
\* and the live swapchain-dependent objects are the ones it found at entry and
\* it has made no create or destroy call; a draw whose acquire and present
\* both report plain success never enters it; and command buffers are only
\* allocated as the last call of a full recreate_swapchain.
C20_DrawLeavesSwapchainAlone ==
    /\ (pc \in DrawPcs /\ rc_from = "none") =>
          /\ swapchain = frame.entry_swapchain
          /\ SwapchainLive = frame.entry_objects
          /\ built = BuiltFrom(frame.entry_swapchain)
          /\ \A k \in 1 .. Len(ops) : ops[k] \notin CreateOps \cup DestroyOps
    /\ (pc \in { "draw_advance", "draw_return" } /\ acquire_result = "OK"
        /\ present_result = "OK_FALSE") => rc_from = "none"
    /\ \A k \in Positions("create_command_buffers") :
          /\ k >= Len(RecreateOrder)
          /\ SubSeq(ops, k + 1 - Len(RecreateOrder), k) = RecreateOrder

\* A frame was drawn and presented on a recreated swapchain without touching it.
C20_Witness ==
    /\ pc = "draw_return"
    /\ acquire_result = "OK"
    /\ present_result = "OK_FALSE"
    /\ swapchain.gen > 0
    /\ swapchain = frame.entry_swapchain

\* C21: the time a draw passes to update_uniform_buffer is the elapsed time
\* since the loop timer was started, in whole microseconds, as it was measured
\* when delta_frame was last assigned (so it never decreases from one frame to
\* the next, however long the program has run).
C21_DeltaTimeIsElapsed ==
    Count("update_uniform_buffer") = 1 => frame.delta_micros = delta_frame_at

\* The fence of slot s is signaled, or a submitted frame will signal it.
FencePending(s) == fences[s] \/ InFlightWith("slot", s) # {}

\* C22: while the loop runs, every slot's fence is signaled or has a frame in
\* flight that will signal it (except the current slot's between the reset and
\* the submit of a draw), and a draw that is blocked in its fence wait gets
\* past it: the fence is signaled in the end.
C22_FenceWaitReturns ==
    /\ [](LoopRunning =>
            \A s \in Slots :
                (pc = "draw_submit" /\ s = current_frame) \/ FencePending(s))
    /\ (pc = "draw_wait" /\ ~fences[current_frame])
          ~> (pc # "draw_wait" \/ fences[current_frame])

\* A draw on a rebuilt swapchain is blocked in the fence wait behind the frame
\* that used its slot.
C22_Witness ==
    /\ pc = "draw_wait"
    /\ ~fences[current_frame]
    /\ swapchain.gen > 0
    /\ InFlightWith("slot", current_frame) # {}

\* Calls of draw that use a handle of the swapchain generation.
UseOps == { "acquire_next_image", "queue_submit", "queue_present" }

\* C23: the swapchain a draw acquires from and presents to, the command buffer
\* it submits and the image index it presents are live objects of the current
\* swapchain generation when they are used; once a draw has entered
\* recreate_swapchain it acquires, submits and presents nothing more; while
\* the event loop runs, frames in flight never outlive their generation; and
\* cleanup_swapchain is only ever entered with the whole generation it is
\* about to destroy still live, so that no handle is destroyed twice.
C23_NoUseAfterDestroy ==
    /\ (pc \in DrawPcs /\ rc_from = "none") =>
            /\ frame.acquire_swapchain # NoObject =>
                  /\ frame.acquire_swapchain \in live
                  /\ frame.acquire_swapchain = <<"swapchain", swapchain.gen>>
            /\ frame.submit_buffer # NoObject =>
                  /\ frame.submit_buffer \in live
                  /\ frame.submit_buffer[2] < swapchain.images
            /\ frame.present_swapchain # NoObject =>
                  /\ frame.present_swapchain \in live
                  /\ frame.present_swapchain = frame.acquire_swapchain
                  /\ frame.present_image < swapchain.images
                  /\ <<"image_view", frame.present_image>> \in live
    /\ \A k \in Positions("device_wait_idle") :
           \A j \in (k + 1) .. Len(ops) : ops[j] \notin UseOps
    /\ LoopRunning => \A k \in 1 .. Len(inflight) :
           /\ inflight[k].gen = swapchain.gen
           /\ <<"swapchain", inflight[k].gen>> \in live
           /\ <<"command_buffer", inflight[k].image>> \in live
    /\ pc = "cl_command_buffers" => SwapchainObjects(swapchain) \subseteq live
    /\ pc = "cl_swapchain" => <<"swapchain", swapchain.gen>> \in live

\* C24: whenever draw runs, the window the surface and the swapchain were
\* created from (the "origin" window of init) is still in the active window
\* set, so that no frame is acquired, submitted or presented against the
\* surface of a window that has been closed and removed.
C24_DrawnWindowIsActive ==
    pc \in DrawPcs => OriginWindow \in windows

\* C25: the active window set changes in two ways only: a CloseRequested
\* callback removes one window of the set, and a KeyboardInput callback whose
\* input is a non-synthetic release of N adds exactly one new window; key
\* presses, synthetic events, other keys, and every step of the redraw and
\* housekeeping callbacks (draw, recreation, teardown) leave it as it is.
C25_WindowSetChanges ==
    [][ \/ /\ windows' = windows
           /\ key_event' # key_event =>
                 ~(/\ key_event'.state = "Released"
                   /\ key_event'.key = "N"
                   /\ ~key_event'.is_synthetic)
        \/ /\ key_event'.state = "Released"
           /\ key_event'.key = "N"
           /\ ~key_event'.is_synthetic
           /\ next_window \notin windows
           /\ windows' = windows \cup { next_window }
           /\ Cardinality(windows') = Cardinality(windows) + 1
        \/ /\ key_event' = NoKey
           /\ pc' = pc
           /\ redraw' \subseteq redraw
           /\ \E w \in windows : windows' = windows \ { w }
      ]_vars

\* A window has been spawned, the origin window has been closed, and a key
\* press has then been handled with the set left as it was.
C25_Witness ==
    /\ windows = { 1 }
    /\ key_event.state = "Pressed"
    /\ key_event.key = "N"
    /\ pc = "idle"

====
